---- MODULE Spec2Model ----
(***************************************************************************)
(* The Coherence Loop (src/coherence/loop.ts) and the simulation harness   *)
(* that drives it (runCoherenceSimulation).                                *)
(*                                                                         *)
(* Numbers are exact rationals <<n, d>> in lowest terms with d > 0;        *)
(* <<1, 0>> is +Infinity.  IEEE rounding and overflow are not modelled.    *)
(***************************************************************************)
EXTENDS Integers, Sequences, FiniteSets, TLC

VARIABLES
    \* CoherenceLoop instance
    constructed,        \* whether the constructor has run
    cfg,                \* this.cfg
    historySize,        \* this.historySize
    history,            \* this.history
    \* direct callers of the loop
    lastEstimate,       \* <<>> or <<[n, state]>>: the last estimate() call
    lastAdapt,          \* <<>> or <<[state, c, proposed, out]>>: the last adapt() call
    adaptCalls,         \* adapt() calls made so far
    senseCalls,         \* sense() calls made so far
    generators,         \* the Lcg objects of a caller: [seed, state, draws]
    \* an IPCRateLimiter, the clock it reads and the calls made on it
    limiterBuilt,       \* the constructor has run
    maxCalls,           \* this.maxCalls
    windowMs,           \* this.windowMs
    callCounts,         \* this.callCounts: channel -> <<>> or <<[count, resetTime]>>
    now,                \* Date.now()
    callLog,            \* the check() and reset() calls so far: [op, channel, at, ok]
    \* the for loop of runCoherenceSimulation in IEEE double arithmetic
    clockPc,            \* "idle", "loop" or "done"
    clockCfg,           \* [durationMs, stepMs], doubles
    clockT,             \* the loop variable tMs, a double
    clockStamps,        \* the tMs of the trace entries pushed so far
    \* runCoherenceSimulation: its config, its position and its locals
    simCfg,             \* cfg
    pc,                 \* "idle", "loop" (before an iteration of the for loop), "done"
    runs,               \* calls of runCoherenceSimulation so far
    prior,              \* <<>> or <<result of the previous call>>
    result,             \* <<>> or <<[summary, trace, failures]>>
    tMs,
    rng,                \* Lcg.state as <<high, low>> 16-bit halves
    trace,
    failures,
    coupling,
    queueDepth,
    couplingChanges,
    ringingEvents,
    overshootMax,
    lastDeltaSignBatch,
    lastDeltaSignConc,
    collapseAtMs,       \* <<>> (undefined) or <<tMs>>
    lastPredictionMs,   \* <<>> (undefined) or <<ms>>
    stableSteps,
    timeToStabilizeMs   \* <<>> (undefined) or <<ms>>

loopVars == <<constructed, cfg, historySize, history>>
ipcVars == <<limiterBuilt, maxCalls, windowMs, callCounts, now, callLog>>
clockVars == <<clockPc, clockCfg, clockT, clockStamps>>
callVars == <<lastEstimate, lastAdapt, adaptCalls, senseCalls, generators, ipcVars, clockVars>>
runVars == <<simCfg, pc, runs, prior, result>>
localVars == <<tMs, rng, trace, failures, coupling, queueDepth, couplingChanges,
               ringingEvents, overshootMax, lastDeltaSignBatch, lastDeltaSignConc,
               collapseAtMs, lastPredictionMs, stableSteps, timeToStabilizeMs>>
simVars == <<runVars, localVars>>
vars == <<loopVars, callVars, simVars>>

----------------------------------------------------------------------------
(* Rational arithmetic                                                      *)

Abs(x) == IF x < 0 THEN -x ELSE x

RECURSIVE GCD(_, _)
GCD(a, b) == IF b = 0 THEN a ELSE GCD(b, a % b)

\* n/d in lowest terms, d # 0
Q(n, d) ==
    LET g == GCD(Abs(n), Abs(d))
        s == IF d < 0 THEN -1 ELSE 1
    IN  <<s * (n \div g), s * (d \div g)>>

I(n) == <<n, 1>>

Zero == I(0)
One == I(1)
Infinity == <<1, 0>>

IsFinite(a) == a[2] # 0

\* sign of n1/d1 - n2/d2 for d1, d2 > 0, by integer parts and then the
\* reciprocals of the fractional parts (no products, so no overflow)
RECURSIVE CmpFrac(_, _, _, _)
CmpFrac(n1, d1, n2, d2) ==
    LET q1 == n1 \div d1
        q2 == n2 \div d2
        r1 == n1 % d1
        r2 == n2 % d2
    IN  IF q1 # q2 THEN (IF q1 < q2 THEN -1 ELSE 1)
        ELSE IF r1 = 0 /\ r2 = 0 THEN 0
        ELSE IF r1 = 0 THEN -1
        ELSE IF r2 = 0 THEN 1
        ELSE CmpFrac(d2, r2, d1, r1)

\* sign of a - b; +Infinity is above every finite number
RCmp(a, b) ==
    IF a[2] = 0 /\ b[2] = 0 THEN 0
    ELSE IF a[2] = 0 THEN 1
    ELSE IF b[2] = 0 THEN -1
    ELSE CmpFrac(a[1], a[2], b[1], b[2])

RLt(a, b) == RCmp(a, b) < 0
RLe(a, b) == RCmp(a, b) <= 0
RGt(a, b) == RLt(b, a)
RGe(a, b) == RLe(b, a)

RMax(a, b) == IF RLt(a, b) THEN b ELSE a
RMin(a, b) == IF RLt(b, a) THEN b ELSE a

RNeg(a) == <<-a[1], a[2]>>
RAbs(a) == <<Abs(a[1]), a[2]>>
RSign(a) == IF a[1] > 0 THEN 1 ELSE IF a[1] < 0 THEN -1 ELSE 0

RAdd(a, b) ==
    LET g == GCD(a[2], b[2])
    IN  Q(a[1] * (b[2] \div g) + b[1] * (a[2] \div g), (a[2] \div g) * b[2])
RSub(a, b) == RAdd(a, RNeg(b))

\* cross-reduced product of two finite rationals
RMul(a, b) ==
    LET g1 == GCD(Abs(a[1]), b[2])
        g2 == GCD(Abs(b[1]), a[2])
    IN  IF a[1] = 0 \/ b[1] = 0 THEN Zero
        ELSE <<(a[1] \div g1) * (b[1] \div g2), (a[2] \div g2) * (b[2] \div g1)>>

\* a / b for finite a > 0 or b # 0; x / 0 is +Infinity for x > 0
RDiv(a, b) ==
    IF b[1] = 0 THEN Infinity
    ELSE RMul(a, IF b[1] < 0 THEN <<-b[2], -b[1]>> ELSE <<b[2], b[1]>>)

\* Math.floor
RFloor(a) == I(a[1] \div a[2])

----------------------------------------------------------------------------
(* Controller: CoherenceLoop.adapt, damp, bound                             *)

Keys == {"batchSize", "concurrency", "redundancy", "paceMs"}

RedundancyStep == Q(1, 10)
PaceStep == I(5)

\* mutant: the couple-down branch doubles batchSize and concurrency
CoupleDownDoubling(c) ==
    [c EXCEPT !.batchSize = RMax(One, RMul(c.batchSize, I(2))),
              !.concurrency = RMax(One, RMul(c.concurrency, I(2))),
              !.redundancy = RAdd(c.redundancy, RedundancyStep),
              !.paceMs = RAdd(c.paceMs, PaceStep)]

\* the couple-down branch of adapt
CoupleDown(c) ==
    [c EXCEPT !.batchSize = RMax(One, RFloor(RDiv(c.batchSize, I(2)))),
              !.concurrency = RMax(One, RFloor(RDiv(c.concurrency, I(2)))),
              !.redundancy = RAdd(c.redundancy, RedundancyStep),
              !.paceMs = RAdd(c.paceMs, PaceStep)]

\* mutant: the couple-down step is proposed whatever the horizon
ProposeAlways(config, state, c) == CoupleDown(c)

\* the value of `next` before damping
Propose(config, state, c) ==
    IF RLt(state.H, config.Hmin) THEN CoupleDown(c) ELSE c

\* mutant: no rate limit
dampOff(prev, next, maxDelta) == next

damp(prev, next, maxDelta) ==
    [k \in Keys |->
        IF k \in DOMAIN maxDelta
        THEN LET d == RSub(next[k], prev[k])
                 lim == maxDelta[k]
             IN  IF RGt(RAbs(d), lim)
                 THEN RAdd(prev[k], RMul(I(RSign(d)), lim))
                 ELSE next[k]
        ELSE next[k]]

\* mutant: the ceiling is not applied
boundNoCeiling(x, floors, ceilings) ==
    [k \in Keys |-> IF k \in DOMAIN floors THEN RMax(floors[k], x[k]) ELSE x[k]]

bound(x, floors, ceilings) ==
    [k \in Keys |->
        LET v == x[k]
            lo == IF k \in DOMAIN floors THEN RMax(floors[k], v) ELSE v
        IN  IF k \in DOMAIN ceilings THEN RMin(ceilings[k], lo) ELSE lo]

adapt(config, state, c) ==
    bound(damp(c, Propose(config, state, c), config.maxDelta),
          config.floors, config.ceilings)

\* the constructor stores its arguments and checks nothing
ConstructorAccepts(config) == TRUE

\* what the configuration surface asks of a config
OrderedBounds(config) ==
    \A k \in Keys :
        /\ k \in DOMAIN config.floors
        /\ k \in DOMAIN config.ceilings
        /\ RLe(config.floors[k], config.ceilings[k])

NonNegativeMaxDelta(config) ==
    \A k \in Keys : k \in DOMAIN config.maxDelta /\ RGe(config.maxDelta[k], Zero)

ValidConfig(config) == OrderedBounds(config) /\ NonNegativeMaxDelta(config)

\* value v of field k lies within the floor and ceiling the config gives for k
WithinBounds(config, k, v) ==
    /\ k \in DOMAIN config.floors => RLe(config.floors[k], v)
    /\ k \in DOMAIN config.ceilings => RLe(v, config.ceilings[k])

----------------------------------------------------------------------------
(* Estimator: CoherenceLoop.sense, CoherenceLoop.estimate, clamp01          *)

\* A latency is the sum of an optional noise term and a rational offset.  The
\* noise term [base, scale, u] stands for max(1, base + (u/0xffffffff - 0.5)*2*scale),
\* the noisy latencyP50 of a synthesized sample (u is the generator state, as
\* <<high, low>> 16-bit halves); its value is a real that no later computation
\* reads except through differences of latencies of the same sample.
Latency(sym, off) == [sym |-> sym, off |-> off]

\* x - y for two latencies built on the same noise term
LatencySub(x, y) ==
    IF x.sym = y.sym THEN RSub(x.off, y.off)
    ELSE CHOOSE r \in {} : TRUE

LatencyAdd(x, r) == Latency(x.sym, RAdd(x.off, r))

Epsilon == Q(1, 1000000)
MinReserve == Q(2, 10)
TailGain == Q(5, 100)
ErrGain == I(50)
HeatGain == I(2)
HistorySizeDefault == 64

\* mutant: no clamping
clamp01Off(x) == x

clamp01(x) == RMax(Zero, RMin(One, x))

\* b.corrSpike ?? 0
CorrSpikeOrZero(sample) ==
    IF sample.corrSpike = <<>> THEN Zero ELSE sample.corrSpike[1]

\* clamp01(1 / (1 + 0.05 * tail + 50 * err)) of one sample
Margin(sample) ==
    LET tail == RMax(Zero, LatencySub(sample.latencyP99, sample.latencyP50))
    IN  clamp01(RDiv(One, RAdd(RAdd(One, RMul(TailGain, tail)),
                               RMul(ErrGain, sample.errRate))))

Reserve(sample) ==
    LET heat == RAdd(RMax(Zero, sample.queueSlope), CorrSpikeOrZero(sample))
    IN  clamp01(RDiv(One, RAdd(One, RMul(HeatGain, heat))))

\* mutant: the warm-up result reports a zero horizon
NeutralStateZeroHorizon == [M |-> One, V |-> Zero, R |-> One, H |-> Zero]

NeutralState == [M |-> One, V |-> Zero, R |-> One, H |-> Infinity]

\* mutant: the horizon scales with the raw reserve, without the 0.2 floor
DriftAndHorizonRawReserve(M, prevM, R, dt) ==
    LET V == RDiv(RSub(M, prevM), dt)
    IN  [M |-> M, V |-> V, R |-> R,
         H |-> IF RLt(V, Zero)
               THEN RMul(RDiv(M, RMax(Epsilon, RAbs(V))), R)
               ELSE Infinity]

\* V and H from the two margins, the reserve and dt
DriftAndHorizon(M, prevM, R, dt) ==
    LET V == RDiv(RSub(M, prevM), dt)
    IN  [M |-> M, V |-> V, R |-> R,
         H |-> IF RLt(V, Zero)
               THEN RMul(RDiv(M, RMax(Epsilon, RAbs(V))), RMax(MinReserve, R))
               ELSE Infinity]

\* mutant: the previous margin is taken from the oldest sample kept, not from
\* the sample before the newest
estimateOldestPrev(h) ==
    LET n == Len(h)
    IN  IF n < 2 THEN NeutralState
        ELSE DriftAndHorizon(Margin(h[n]), Margin(h[1]), Reserve(h[n]),
                             RMax(Epsilon, RDiv(RSub(I(h[n].t), I(h[n - 1].t)), I(1000))))

estimate(h) ==
    LET n == Len(h)
    IN  IF n < 2 THEN NeutralState
        ELSE DriftAndHorizon(Margin(h[n]), Margin(h[n - 1]), Reserve(h[n]),
                             RMax(Epsilon, RDiv(RSub(I(h[n].t), I(h[n - 1].t)), I(1000))))

DEFAULT_MIN_RESERVE == Q(2, 10)

\* computeHorizonSec(margin, drift, reserve, minReserve) of the invariants module
computeHorizonSec(margin, drift, reserve, minReserve) ==
    IF RGe(drift, Zero) THEN Infinity
    ELSE LET effectiveReserve == RMax(minReserve, clamp01(reserve))
         IN  RMul(RDiv(margin, RMax(Epsilon, RAbs(drift))), effectiveReserve)

\* isUnsafe(state, minHorizon)
isUnsafe(state, minHorizon) == RLt(state.H, minHorizon)

\* mutant: a full history refuses the new sample instead of evicting the oldest
senseDropsNewest(h, size, sample) ==
    IF Len(h) + 1 > size THEN h ELSE Append(h, sample)

\* this.history after sense(sample)
sense(h, size, sample) ==
    LET pushed == Append(h, sample)
    IN  IF Len(pushed) > size THEN Tail(pushed) ELSE pushed

\* mutant: a loop that keeps the samples of the previous owner
LeftoverHistory == history

\* private history: FieldSample[] = []
EmptyHistory == <<>>

----------------------------------------------------------------------------
(* Simulation harness: Lcg, defaultSimulationConfig, runCoherenceSimulation *)

Half == 65536

\* seed >>> 0
LcgSeed(seed) == <<(seed \div Half) % Half, seed % Half>>

\* (1664525 * state + 1013904223) >>> 0, with 1664525 = 25 * 2^16 + 26125 and
\* 1013904223 = 15470 * 2^16 + 62303
LcgNext(st) ==
    LET low == 26125 * st[2] + 62303
        high == 26125 * st[1] + 25 * st[2] + 15470 + (low \div Half)
    IN  <<high % Half, low % Half>>

\* mutant: the seed is stored as given, without >>> 0
LcgSeedWideNoWrap(seed) == seed

\* seed >>> 0 for a seed written as <<hi, lo>>, the integer hi * 2^16 + lo with
\* lo in 0..2^16-1 and hi any integer (seeds at and beyond 2^32, negative seeds)
LcgSeedWide(seed) == <<seed[1] % Half, seed[2]>>

\* this.state / 0xffffffff, kept as the exact quotient of two 32-bit numbers
LcgValue(st) == [num |-> st, den |-> <<Half - 1, Half - 1>>]

\* order of two 32-bit numbers written in halves
WideLt(a, b) == a[1] < b[1] \/ (a[1] = b[1] /\ a[2] < b[2])

SimEvent(kind, startMs, durationMs, magnitude) ==
    [kind |-> kind, startMs |-> startMs, durationMs |-> durationMs,
     magnitude |-> magnitude]

Params(b, c, r, p) ==
    [batchSize |-> b, concurrency |-> c, redundancy |-> r, paceMs |-> p]

HminDefault == I(4)

DefaultCoupling == Params(I(64), I(8), Q(1, 10), One)

DefaultCoherence ==
    [Hmin |-> HminDefault,
     maxDelta |-> Params(I(16), I(2), Q(1, 10), I(5)),
     floors |-> Params(One, One, Zero, Zero),
     ceilings |-> Params(I(256), I(64), One, I(50))]

defaultSimulationConfig ==
    [durationMs |-> 60000,
     stepMs |-> 200,
     seed |-> 1337,
     baseLatencyMs |-> I(12),
     baseJitterMs |-> I(4),
     baseErrRate |-> Q(2, 1000),
     baseQueueDepth |-> I(8),
     baseQueueSlope |-> Zero,
     collapseMargin |-> Q(15, 100),
     stableWindowSteps |-> 5,
     coupling |-> DefaultCoupling,
     coherence |-> DefaultCoherence,
     events |-> << SimEvent("jitter", 10000, 6000, Q(3, 2)),
                   SimEvent("crosstalk", 22000, 8000, Q(2, 100)),
                   SimEvent("congestion", 35000, 10000, Q(5, 2)) >>]

\* cfg.events.reduce((max, e) => Math.max(max, e.startMs + e.durationMs), 0)
RECURSIVE LastEventEnd(_)
LastEventEnd(events) ==
    IF events = <<>> THEN 0
    ELSE LET rest == LastEventEnd(SubSeq(events, 1, Len(events) - 1))
             e == events[Len(events)]
         IN  IF e.startMs + e.durationMs > rest THEN e.startMs + e.durationMs ELSE rest

IsActive(e, t) == t >= e.startMs /\ t < e.startMs + e.durationMs

ActiveEvents(config, t) == SelectSeq(config.events, LAMBDA e : IsActive(e, t))

\* the sum of the magnitudes of the events of one kind
RECURSIVE SumMagnitude(_, _)
SumMagnitude(events, kind) ==
    IF events = <<>> THEN Zero
    ELSE RAdd(SumMagnitude(SubSeq(events, 1, Len(events) - 1), kind),
              IF events[Len(events)].kind = kind
              THEN events[Len(events)].magnitude ELSE Zero)

\* mutant: the queue integrator restarts from baseQueueDepth at every tick
SynthesizeResetsQueue(config, t, u, depth) ==
    LET active == ActiveEvents(config, t)
        jitterScale == RAdd(One, SumMagnitude(active, "jitter"))
        errBoost == SumMagnitude(active, "crosstalk")
        corrSpike == SumMagnitude(active, "crosstalk")
        queueSlopeBoost == SumMagnitude(active, "congestion")
        noiseScale == RMul(RMul(config.baseJitterMs, jitterScale), Q(2, 10))
        latencyP50 == Latency(<< [base |-> config.baseLatencyMs,
                                  scale |-> noiseScale, u |-> u] >>, Zero)
        jitter == RMul(config.baseJitterMs, jitterScale)
        slope == RAdd(config.baseQueueSlope, queueSlopeBoost)
    IN  [t |-> t,
         latencyP50 |-> latencyP50,
         latencyP95 |-> LatencyAdd(latencyP50, RMul(jitter, Q(18, 10))),
         latencyP99 |-> LatencyAdd(latencyP50, RMul(jitter, I(3))),
         errRate |-> clamp01(RAdd(config.baseErrRate, errBoost)),
         queueDepth |-> RMax(Zero, RAdd(config.baseQueueDepth,
                                        RMul(slope, Q(config.stepMs, 1000)))),
         queueSlope |-> slope,
         corrSpike |-> IF RGt(corrSpike, Zero) THEN <<corrSpike>> ELSE <<>>]

\* mutant: p99 carries a noise term of its own (one bit of the draw), so the
\* noise no longer cancels in p99 - p50
SynthesizeP99OwnNoise(config, t, u, depth) ==
    LET active == ActiveEvents(config, t)
        jitterScale == RAdd(One, SumMagnitude(active, "jitter"))
        errBoost == SumMagnitude(active, "crosstalk")
        corrSpike == SumMagnitude(active, "crosstalk")
        queueSlopeBoost == SumMagnitude(active, "congestion")
        noiseScale == RMul(RMul(config.baseJitterMs, jitterScale), Q(2, 10))
        latencyP50 == Latency(<< [base |-> config.baseLatencyMs,
                                  scale |-> noiseScale, u |-> u] >>, Zero)
        jitter == RMul(config.baseJitterMs, jitterScale)
        slope == RAdd(config.baseQueueSlope, queueSlopeBoost)
        own == IF u[1] >= Half \div 2 THEN noiseScale ELSE Zero
    IN  [t |-> t,
         latencyP50 |-> latencyP50,
         latencyP95 |-> LatencyAdd(latencyP50, RMul(jitter, Q(18, 10))),
         latencyP99 |-> LatencyAdd(latencyP50, RAdd(RMul(jitter, I(3)), own)),
         errRate |-> clamp01(RAdd(config.baseErrRate, errBoost)),
         queueDepth |-> RMax(Zero, RAdd(depth, RMul(slope, Q(config.stepMs, 1000)))),
         queueSlope |-> slope,
         corrSpike |-> IF RGt(corrSpike, Zero) THEN <<corrSpike>> ELSE <<>>]

\* the sample of the tick at t, given the generator state after this tick's
\* draw and the queue depth before the tick
Synthesize(config, t, u, depth) ==
    LET active == ActiveEvents(config, t)
        jitterScale == RAdd(One, SumMagnitude(active, "jitter"))
        errBoost == SumMagnitude(active, "crosstalk")
        corrSpike == SumMagnitude(active, "crosstalk")
        queueSlopeBoost == SumMagnitude(active, "congestion")
        noiseScale == RMul(RMul(config.baseJitterMs, jitterScale), Q(2, 10))
        latencyP50 == Latency(<< [base |-> config.baseLatencyMs,
                                  scale |-> noiseScale, u |-> u] >>, Zero)
        jitter == RMul(config.baseJitterMs, jitterScale)
        slope == RAdd(config.baseQueueSlope, queueSlopeBoost)
    IN  [t |-> t,
         latencyP50 |-> latencyP50,
         latencyP95 |-> LatencyAdd(latencyP50, RMul(jitter, Q(18, 10))),
         latencyP99 |-> LatencyAdd(latencyP50, RMul(jitter, I(3))),
         errRate |-> clamp01(RAdd(config.baseErrRate, errBoost)),
         queueDepth |-> RMax(Zero, RAdd(depth, RMul(slope, Q(config.stepMs, 1000)))),
         queueSlope |-> slope,
         corrSpike |-> IF RGt(corrSpike, Zero) THEN <<corrSpike>> ELSE <<>>]

\* mutant: the latch also fires at the margin itself
CollapseLatchFiresAtMargin(state, config, collapseAt) ==
    RLe(state.M, config.collapseMargin) /\ collapseAt = <<>>

\* mutant: no check that the latch is still unset
CollapseLatchRefires(state, config, collapseAt) ==
    RLt(state.M, config.collapseMargin)

\* state.M < cfg.collapseMargin && collapseAtMs === undefined
CollapseLatchFires(state, config, collapseAt) ==
    RLt(state.M, config.collapseMargin) /\ collapseAt = <<>>

CollapseEntry(config, t) ==
    [tMs |-> t, reason |-> "collapse",
     note |-> <<"margin dropped below", config.collapseMargin>>]

\* mutant: the unstable entry carries the time of the last tick
UnstableEntryAtLastTick(config) ==
    [tMs |-> tMs - config.stepMs, reason |-> "unstable", note |-> <<"did not stabilize">>]

UnstableEntry(config) ==
    [tMs |-> config.durationMs, reason |-> "unstable", note |-> <<"did not stabilize">>]

\* mutant: every non-zero delta that follows a non-zero delta counts as ringing
RingingStepCountsRepeats(delta, lastSign) ==
    IF delta[1] # 0
    THEN [ringing |-> IF lastSign # 0 THEN 1 ELSE 0, lastSign |-> RSign(delta)]
    ELSE [ringing |-> 0, lastSign |-> lastSign]

\* the ringing count added and the last delta sign kept, for one parameter
RingingStep(delta, lastSign) ==
    IF delta[1] # 0
    THEN [ringing |-> IF lastSign # 0 /\ RSign(delta) # lastSign THEN 1 ELSE 0,
          lastSign |-> RSign(delta)]
    ELSE [ringing |-> 0, lastSign |-> lastSign]

\* mutant: ticks before lastEventEnd count towards the stable window
StabilizeStepCountsEarly(config, t, state, steps, tts) ==
    IF tts = <<>>
    THEN IF RGe(state.H, config.coherence.Hmin) /\ RGe(state.V, Zero)
         THEN <<steps + 1,
                IF steps + 1 >= config.stableWindowSteps
                THEN <<t - LastEventEnd(config.events)>> ELSE tts>>
         ELSE <<0, tts>>
    ELSE <<steps, tts>>

\* the stable-window bookkeeping of one tick: <<stableSteps, timeToStabilizeMs>>
StabilizeStep(config, t, state, steps, tts) ==
    IF t >= LastEventEnd(config.events) /\ tts = <<>>
    THEN IF RGe(state.H, config.coherence.Hmin) /\ RGe(state.V, Zero)
         THEN <<steps + 1,
                IF steps + 1 >= config.stableWindowSteps
                THEN <<t - LastEventEnd(config.events)>> ELSE tts>>
         ELSE <<0, tts>>
    ELSE <<steps, tts>>

\* mutant: the prediction error is reported whenever a prediction exists,
\* measured from 0 when no collapse was recorded
SummaryErrorWithoutCollapse(config) ==
    [timeToStabilizeMs |-> timeToStabilizeMs,
     overshootMax |-> overshootMax,
     ringingEvents |-> ringingEvents,
     couplingChangesPerMinute |->
        IF config.durationMs > 0
        THEN RMul(Q(couplingChanges, config.durationMs), I(60000))
        ELSE Zero,
     horizonPredictionErrorMs |->
        IF lastPredictionMs # <<>>
        THEN << RAbs(RSub(lastPredictionMs[1],
                          IF collapseAtMs # <<>> THEN I(collapseAtMs[1]) ELSE Zero)) >>
        ELSE <<>>,
     collapseAtMs |-> collapseAtMs]

Summary(config) ==
    [timeToStabilizeMs |-> timeToStabilizeMs,
     overshootMax |-> overshootMax,
     ringingEvents |-> ringingEvents,
     couplingChangesPerMinute |->
        IF config.durationMs > 0
        THEN RMul(Q(couplingChanges, config.durationMs), I(60000))
        ELSE Zero,
     horizonPredictionErrorMs |->
        IF collapseAtMs # <<>> /\ lastPredictionMs # <<>>
        THEN << RAbs(RSub(lastPredictionMs[1], I(collapseAtMs[1]))) >>
        ELSE <<>>,
     collapseAtMs |-> collapseAtMs]

----------------------------------------------------------------------------
(* Inputs of the controller specification                                   *)

MaxBatch == 5      \* batchSize and concurrency range over 0..MaxBatch
MaxTenths == 3     \* redundancy ranges over 0/10..MaxTenths/10
MaxPace == 2       \* paceMs ranges over 0, 4, .., 4*MaxPace
MaxCalls == 2      \* adapt() calls made on one loop

ParamChoices ==
    { Params(I(b), I(c), Q(r, 10), I(4 * p)) :
        b \in 0..MaxBatch, c \in {1, MaxBatch}, r \in 0..MaxTenths, p \in 0..MaxPace }

MaxDeltaChoices ==
    { Params(I(2), I(1), Q(1, 10), I(5)),
      Params(Zero, Zero, Zero, Zero),
      Params(I(10), I(10), One, I(10)),
      Params(I(-1), I(1), Q(1, 10), I(5)),
      [batchSize |-> I(2)] }

\* <<floors, ceilings>>: ordered, tight, crossed (floor > ceiling), partial
BoundsChoices ==
    { <<Params(One, One, Zero, Zero), Params(I(4), I(4), Q(2, 10), I(6))>>,
      <<Params(Zero, One, Zero, Zero), Params(I(2), One, Q(1, 10), I(4))>>,
      <<Params(I(3), I(2), Q(2, 10), I(6)), Params(I(2), I(4), Q(1, 10), I(4))>>,
      <<[concurrency |-> One], [batchSize |-> I(4)]>> }

ConfigChoices ==
    { [Hmin |-> HminDefault, maxDelta |-> md, floors |-> fc[1], ceilings |-> fc[2]] :
        md \in MaxDeltaChoices, fc \in BoundsChoices }

State(M, V, R, H) == [M |-> M, V |-> V, R |-> R, H |-> H]

StateChoices ==
    { NeutralState,
      State(Q(1, 2), I(-1), One, Q(1, 2)),
      State(Q(1, 2), Q(-1, 8), One, I(4)) }

----------------------------------------------------------------------------
(* The controller driven by an arbitrary caller                             *)

NoConfig == [Hmin |-> Zero, maxDelta |-> <<>>, floors |-> <<>>, ceilings |-> <<>>]

\* the channels of the limiter's callers
Channels == {"channel1", "channel2"}

\* no IPCRateLimiter has been built
NoLimiter ==
    /\ limiterBuilt = FALSE
    /\ maxCalls = 0
    /\ windowMs = 0
    /\ callCounts = [ch \in Channels |-> <<>>]
    /\ now = 0
    /\ callLog = <<>>

\* the for loop has not been entered
NoClock ==
    /\ clockPc = "idle"
    /\ clockCfg = [durationMs |-> <<0, 0>>, stepMs |-> <<0, 0>>]
    /\ clockT = <<0, 0>>
    /\ clockStamps = <<>>

\* no run of the simulation has started
NoRun ==
    /\ simCfg = defaultSimulationConfig
    /\ pc = "idle"
    /\ runs = 0
    /\ prior = <<>>
    /\ result = <<>>
    /\ tMs = 0
    /\ rng = <<0, 0>>
    /\ trace = <<>>
    /\ failures = <<>>
    /\ coupling = DefaultCoupling
    /\ queueDepth = Zero
    /\ couplingChanges = 0
    /\ ringingEvents = 0
    /\ overshootMax = Zero
    /\ lastDeltaSignBatch = 0
    /\ lastDeltaSignConc = 0
    /\ collapseAtMs = <<>>
    /\ lastPredictionMs = <<>>
    /\ stableSteps = 0
    /\ timeToStabilizeMs = <<>>

Init ==
    /\ constructed = FALSE
    /\ cfg = NoConfig
    /\ historySize = HistorySizeDefault
    /\ history = <<>>
    /\ lastEstimate = <<>>
    /\ lastAdapt = <<>>
    /\ adaptCalls = 0
    /\ senseCalls = 0
    /\ generators = <<>>
    /\ NoLimiter
    /\ NoClock
    /\ NoRun

\* new CoherenceLoop(config, size)
New(config, size) ==
    /\ ~constructed
    /\ ConstructorAccepts(config)
    /\ constructed' = TRUE
    /\ cfg' = config
    /\ historySize' = size
    /\ history' = EmptyHistory
    /\ UNCHANGED <<callVars, simVars>>

\* loop.adapt(state, c): the first call takes any params, a later call takes
\* the params the previous call returned (the caller applies the result)
Adapt(state, c) ==
    /\ constructed
    /\ adaptCalls < MaxCalls
    /\ lastAdapt # <<>> => c = lastAdapt[1].out
    /\ adaptCalls' = adaptCalls + 1
    /\ lastAdapt' = << [state |-> state, c |-> c,
                        proposed |-> Propose(cfg, state, c),
                        out |-> adapt(cfg, state, c)] >>
    /\ UNCHANGED <<loopVars, lastEstimate, senseCalls, generators, ipcVars,
                   clockVars, simVars>>

Next ==
    \/ \E config \in ConfigChoices : New(config, HistorySizeDefault)
    \/ \E state \in StateChoices :
          \E c \in (IF lastAdapt = <<>> THEN ParamChoices ELSE {lastAdapt[1].out}) :
              Adapt(state, c)

Spec == Init /\ [][Next]_vars

----------------------------------------------------------------------------
(* The estimator driven by an arbitrary caller                              *)

MaxSense == 3      \* sense() calls made on one loop

Sample(t, p50, p99, err, slope, corr) ==
    [t |-> t,
     latencyP50 |-> Latency(<<>>, p50),
     latencyP95 |-> Latency(<<>>, RAdd(p50, RMul(Q(6, 10), RSub(p99, p50)))),
     latencyP99 |-> Latency(<<>>, p99),
     errRate |-> err,
     queueDepth |-> I(8),
     queueSlope |-> slope,
     corrSpike |-> corr]

\* quiet; long tail with a climbing queue; negative error rate and spike (the
\* unclamped margin and reserve are negative); the denominators of margin and
\* reserve are zero; p99 below p50 with a draining queue; crosstalk
SampleChoices ==
    { Sample(t, pr[1], pr[2], pr[3], pr[4], pr[5]) :
        t \in {0, 200},
        pr \in { <<I(12), I(24), Q(2, 1000), Zero, <<>> >>,
                 <<I(12), I(42), Q(2, 1000), Q(5, 2), <<>> >>,
                 <<I(12), I(24), Q(-1, 10), Zero, <<I(-1)>> >>,
                 <<I(12), I(24), Q(-32, 1000), Zero, <<Q(-1, 2)>> >>,
                 <<I(20), I(10), Zero, I(-1), <<>> >>,
                 <<I(12), I(24), Q(202, 1000), Zero, <<Q(2, 10)>> >> } }

HistorySizeChoices == {2, HistorySizeDefault}

EstConfigChoices ==
    { [Hmin |-> HminDefault, maxDelta |-> md, floors |-> fc[1], ceilings |-> fc[2]] :
        md \in {Params(I(2), I(1), Q(1, 10), I(5))},
        fc \in { <<Params(One, One, Zero, Zero), Params(I(4), I(4), Q(2, 10), I(6))>>,
                 <<Params(I(3), I(2), Q(2, 10), I(6)), Params(I(2), I(4), Q(1, 10), I(4))>> } }

\* loop.sense(sample)
Sense(sample) ==
    /\ constructed
    /\ senseCalls < MaxSense
    /\ history' = sense(history, historySize, sample)
    /\ senseCalls' = senseCalls + 1
    /\ UNCHANGED <<constructed, cfg, historySize, lastEstimate, lastAdapt, adaptCalls,
                   generators, ipcVars,
                   clockVars, simVars>>

\* loop.estimate()
Estimate ==
    /\ constructed
    /\ lastEstimate' = << [n |-> Len(history), state |-> estimate(history)] >>
    /\ UNCHANGED <<loopVars, lastAdapt, adaptCalls, senseCalls, generators, ipcVars,
                   clockVars, simVars>>

EstNext ==
    \/ \E config \in EstConfigChoices, size \in HistorySizeChoices : New(config, size)
    \/ \E sample \in SampleChoices : Sense(sample)
    \/ Estimate

EstSpec == Init /\ [][EstNext]_vars

----------------------------------------------------------------------------
(* runCoherenceSimulation called with a config, and again with the same one *)

MaxSteps == 6      \* durationMs is at most MaxSteps * stepMs
MaxEvents == 2     \* events in a config
MaxRuns == 2       \* calls of runCoherenceSimulation

StepMs == defaultSimulationConfig.stepMs

\* a jitter burst, a strong crosstalk burst of one tick, a later strong one of
\* two ticks, the default's weak crosstalk, a queue climb, and a jitter relief
\* (negative magnitude) whose end makes the margin fall at lastEventEnd
EventChoices ==
    << SimEvent("jitter", StepMs, 2 * StepMs, Q(3, 2)),
       SimEvent("crosstalk", StepMs, StepMs, Q(2, 10)),
       SimEvent("crosstalk", 3 * StepMs, 2 * StepMs, Q(2, 10)),
       SimEvent("crosstalk", 2 * StepMs, 2 * StepMs, Q(2, 100)),
       SimEvent("congestion", StepMs, 3 * StepMs, Q(5, 2)),
       SimEvent("jitter", StepMs, StepMs, Q(-1, 2)) >>

\* the events numbered in S, in the order of EventChoices
RECURSIVE EventsOf(_)
EventsOf(S) ==
    IF S = {} THEN <<>>
    ELSE LET m == CHOOSE x \in S : \A y \in S : y <= x
         IN  Append(EventsOf(S \ {m}), EventChoices[m])

EventListChoices ==
    { EventsOf(S) : S \in { T \in SUBSET (1..Len(EventChoices)) : Cardinality(T) <= MaxEvents } }

\* the default; valid with narrow bounds; floor > ceiling and a negative maxDelta
CoherenceChoices ==
    { DefaultCoherence,
      [DefaultCoherence EXCEPT !.floors = Params(I(32), I(4), Zero, Zero),
                               !.ceilings = Params(I(64), I(8), Q(2, 10), I(6))],
      [DefaultCoherence EXCEPT !.floors = Params(I(128), One, Zero, Zero),
                               !.ceilings = Params(I(32), I(64), One, I(50)),
                               !.maxDelta = Params(I(16), I(-2), Q(1, 10), I(5))] }

CouplingChoices == { DefaultCoupling, Params(I(300), I(8), Q(1, 10), One) }

SimConfigChoices ==
    { [defaultSimulationConfig EXCEPT
          !.durationMs = d, !.seed = sd, !.baseQueueSlope = qs,
          !.collapseMargin = cm, !.stableWindowSteps = sw,
          !.coupling = cp, !.coherence = ch, !.events = ev] :
        d \in {MaxSteps * StepMs, StepMs + 100},
        sd \in {1337, 0},
        qs \in {Zero, I(-20)},
        cm \in {Q(15, 100), Q(5, 13)},
        sw \in {2, 5},
        cp \in CouplingChoices,
        ch \in CoherenceChoices,
        ev \in EventListChoices }

\* runCoherenceSimulation(config): everything before the for loop
Start(config) ==
    /\ pc \in {"idle", "done"}
    /\ runs < MaxRuns
    /\ runs' = runs + 1
    /\ prior' = result
    /\ result' = <<>>
    /\ simCfg' = config
    /\ rng' = LcgSeed(config.seed)
    /\ ConstructorAccepts(config.coherence)
    /\ constructed' = TRUE
    /\ cfg' = config.coherence
    /\ historySize' = HistorySizeDefault
    /\ history' = EmptyHistory
    /\ trace' = <<>>
    /\ failures' = <<>>
    /\ coupling' = config.coupling
    /\ queueDepth' = config.baseQueueDepth
    /\ couplingChanges' = 0
    /\ ringingEvents' = 0
    /\ overshootMax' = Zero
    /\ lastDeltaSignBatch' = 0
    /\ lastDeltaSignConc' = 0
    /\ collapseAtMs' = <<>>
    /\ lastPredictionMs' = <<>>
    /\ stableSteps' = 0
    /\ timeToStabilizeMs' = <<>>
    /\ tMs' = 0
    /\ pc' = "loop"
    /\ UNCHANGED callVars

\* mutant: adapt writes its result into the object it was given
ArgumentInPlace(c, next) == next

\* the object passed to adapt, after the call: adapt works on the copy { ...c }
\* and damp and bound return further copies, so the argument keeps its fields
Argument(c, next) == c

\* the trace after adapt has run on the object its newest entry refers to
\* (`coupling = next` makes the live variable and the entry share one object;
\* on the first tick the live variable is a private copy of cfg.coupling)
AliasedTrace(tr, c) ==
    IF tr = <<>> THEN tr ELSE [tr EXCEPT ![Len(tr)].coupling = c]

\* one iteration of the for loop (each local is bound once, in source order)
Tick ==
    /\ pc = "loop"
    /\ tMs <= simCfg.durationMs
    /\ \E u \in {LcgNext(rng)} :
       \E sample \in {Synthesize(simCfg, tMs, u, queueDepth)} :
       \E h \in {sense(history, historySize, sample)} :
       \E state \in {estimate(h)} :
       \E latch \in {CollapseLatchFires(state, simCfg, collapseAtMs)} :
       \E next \in {adapt(cfg, state, coupling)} :
       \E batch \in {RingingStep(RSub(next.batchSize, coupling.batchSize),
                                 lastDeltaSignBatch)} :
       \E conc \in {RingingStep(RSub(next.concurrency, coupling.concurrency),
                                lastDeltaSignConc)} :
       \E stable \in {StabilizeStep(simCfg, tMs, state, stableSteps, timeToStabilizeMs)} :
           /\ rng' = u
           /\ queueDepth' = sample.queueDepth
           /\ history' = h
           /\ lastPredictionMs' =
                 IF RLt(state.V, Zero) /\ IsFinite(state.H)
                 THEN << RAdd(I(tMs), RMul(state.H, I(1000))) >>
                 ELSE lastPredictionMs
           /\ collapseAtMs' = IF latch THEN <<tMs>> ELSE collapseAtMs
           /\ failures' = IF latch THEN Append(failures, CollapseEntry(simCfg, tMs))
                          ELSE failures
           /\ ringingEvents' = ringingEvents + batch.ringing + conc.ringing
           /\ lastDeltaSignBatch' = batch.lastSign
           /\ lastDeltaSignConc' = conc.lastSign
           /\ couplingChanges' = IF next # coupling THEN couplingChanges + 1
                                 ELSE couplingChanges
           /\ overshootMax' =
                 RMax(RMax(overshootMax,
                           RAbs(RSub(next.batchSize, simCfg.coupling.batchSize))),
                      RAbs(RSub(next.concurrency, simCfg.coupling.concurrency)))
           /\ stableSteps' = stable[1]
           /\ timeToStabilizeMs' = stable[2]
           /\ trace' = Append(AliasedTrace(trace, Argument(coupling, next)),
                              [tMs |-> tMs, state |-> state, coupling |-> next])
           /\ coupling' = next
    /\ tMs' = tMs + simCfg.stepMs
    /\ UNCHANGED <<constructed, cfg, historySize, callVars, runVars>>

\* everything after the for loop
Finish ==
    /\ pc = "loop"
    /\ tMs > simCfg.durationMs
    /\ LET diary == IF timeToStabilizeMs = <<>>
                    THEN Append(failures, UnstableEntry(simCfg)) ELSE failures
       IN  /\ failures' = diary
           /\ result' = << [summary |-> Summary(simCfg), trace |-> trace,
                             failures |-> diary] >>
    /\ pc' = "done"
    /\ UNCHANGED <<loopVars, callVars, simCfg, runs, prior>>
    /\ UNCHANGED <<tMs, rng, trace, coupling, queueDepth, couplingChanges,
                   ringingEvents, overshootMax, lastDeltaSignBatch, lastDeltaSignConc,
                   collapseAtMs, lastPredictionMs, stableSteps, timeToStabilizeMs>>

SimNext ==
    \/ pc = "idle" /\ \E config \in SimConfigChoices : Start(config)
    \/ Tick
    \/ Finish

SimSpec == Init /\ [][SimNext]_vars

\* the configs that are run more than once
RerunConfigChoices ==
    { [defaultSimulationConfig EXCEPT
          !.durationMs = MaxSteps * StepMs, !.seed = sd,
          !.coupling = cp, !.coherence = ch, !.events = ev] :
        sd \in {1337, 0},
        cp \in CouplingChoices,
        ch \in CoherenceChoices,
        ev \in EventListChoices }

\* runCoherenceSimulation(config), and again with the same config once it
\* has returned, every variable being as the earlier call left it
RerunNext ==
    \/ pc = "idle" /\ \E config \in RerunConfigChoices : Start(config)
    \/ pc = "done" /\ Start(simCfg)
    \/ Tick
    \/ Finish

RerunSpec == Init /\ [][RerunNext]_vars

\* seeds of a second run
SeedChoices == {0, 42, 653637408}

\* runCoherenceSimulation(config) with the default seed, and once it has
\* returned the same config again under another seed
SeedNext ==
    \/ pc = "idle" /\ \E config \in RerunConfigChoices :
                         Start([config EXCEPT !.seed = defaultSimulationConfig.seed])
    \/ pc = "done" /\ \E seed \in SeedChoices : Start([simCfg EXCEPT !.seed = seed])
    \/ Tick
    \/ Finish

SeedSpec == Init /\ [][SeedNext]_vars

----------------------------------------------------------------------------
(* runCoherenceSimulation on the scenario configs of full length            *)

\* 1337 (the default), 0, and the seed whose first draw is 0xffffffff
ScenarioSeedChoices == {defaultSimulationConfig.seed, 0, 653637408}

\* Scenario A: the default config with an empty event list
ScenarioA(seed) == [defaultSimulationConfig EXCEPT !.events = <<>>, !.seed = seed]

ScenarioNext ==
    \/ pc = "idle" /\ \E seed \in ScenarioSeedChoices : Start(ScenarioA(seed))
    \/ Tick
    \/ Finish

ScenarioSpec == Init /\ [][ScenarioNext]_vars

\* the default config (Scenarios B and C), with the default seed or 0 and
\* with the default baseQueueSlope 0 or a draining queue
DefaultRunChoices ==
    { [defaultSimulationConfig EXCEPT !.seed = sd, !.baseQueueSlope = qs] :
        sd \in {defaultSimulationConfig.seed, 0}, qs \in {Zero, I(-1)} }

DefaultRunNext ==
    \/ pc = "idle" /\ \E config \in DefaultRunChoices : Start(config)
    \/ Tick
    \/ Finish

DefaultRunSpec == Init /\ [][DefaultRunNext]_vars

----------------------------------------------------------------------------
(* Lcg objects driven by an arbitrary caller                                *)

MaxGens == 2       \* Lcg objects constructed
MaxDraws == 2      \* next() calls on one Lcg

\* 1337, 1337 + 2^32, 1337 - 2^32, 0, -1, 2^32 - 1, 2^32, and 653637408
LcgSeedChoices ==
    { <<0, 1337>>, <<Half, 1337>>, <<-Half, 1337>>, <<0, 0>>, <<-1, Half - 1>>,
      <<Half - 1, Half - 1>>, <<Half, 0>>, <<9973, 46880>> }

\* new Lcg(seed)
NewLcg(seed) ==
    /\ Len(generators) < MaxGens
    /\ generators' = Append(generators,
                            [seed |-> seed, state |-> LcgSeedWide(seed), draws |-> <<>>])
    /\ UNCHANGED <<loopVars, lastEstimate, lastAdapt, adaptCalls, senseCalls, ipcVars,
                   clockVars, simVars>>

\* generators[g].next()
LcgDraw(g) ==
    /\ Len(generators[g].draws) < MaxDraws
    /\ \E st \in {LcgNext(generators[g].state)} :
          generators' = [generators EXCEPT ![g].state = st,
                                           ![g].draws = Append(@, LcgValue(st))]
    /\ UNCHANGED <<loopVars, lastEstimate, lastAdapt, adaptCalls, senseCalls, ipcVars,
                   clockVars, simVars>>

LcgStep ==
    \/ \E seed \in LcgSeedChoices : NewLcg(seed)
    \/ \E g \in 1..Len(generators) : LcgDraw(g)

LcgSpec == Init /\ [][LcgStep]_vars

----------------------------------------------------------------------------
(* An IPCRateLimiter driven by arbitrary callers and a clock                *)

MaxLogged == 4     \* check() and reset() calls made on one limiter
MaxClock == 3      \* the clock advances at most MaxClock times

WindowMsDefault == 1000
\* the clock is read twice per window
ClockStepMs == WindowMsDefault \div 2

\* limits passed to the constructor: none, one, two calls per window
MaxCallsChoices == {0, 1, 2}

\* new IPCRateLimiter(maxCallsPerSecond, windowMs)
NewLimiter(limit, window) ==
    /\ ~limiterBuilt
    /\ limiterBuilt' = TRUE
    /\ maxCalls' = limit
    /\ windowMs' = window
    /\ callCounts' = [ch \in Channels |-> <<>>]
    /\ UNCHANGED <<now, callLog>>
    /\ UNCHANGED <<loopVars, lastEstimate, lastAdapt, adaptCalls, senseCalls, generators,
                   clockVars, simVars>>

\* time passes between two calls
ClockAdvance ==
    /\ now < MaxClock * ClockStepMs
    /\ now' = now + ClockStepMs
    /\ UNCHANGED <<limiterBuilt, maxCalls, windowMs, callCounts, callLog>>
    /\ UNCHANGED <<loopVars, lastEstimate, lastAdapt, adaptCalls, senseCalls, generators,
                   clockVars, simVars>>

\* the value check() returns, given the channel's record
checkResult(record, limit, at) ==
    IF record = <<>> \/ at >= record[1].resetTime THEN TRUE
    ELSE record[1].count < limit

\* the channel's record after check()
checkRecord(record, limit, window, at) ==
    IF record = <<>> \/ at >= record[1].resetTime
    THEN << [count |-> 1, resetTime |-> at + window] >>
    ELSE IF record[1].count >= limit THEN record
    ELSE << [record[1] EXCEPT !.count = @ + 1] >>

\* check(channel)
Check(channel) ==
    /\ limiterBuilt
    /\ Len(callLog) < MaxLogged
    /\ callCounts' = [callCounts EXCEPT
                         ![channel] = checkRecord(@, maxCalls, windowMs, now)]
    /\ callLog' = Append(callLog,
                         [op |-> "check", channel |-> channel, at |-> now,
                          ok |-> checkResult(callCounts[channel], maxCalls, now)])
    /\ UNCHANGED <<limiterBuilt, maxCalls, windowMs, now>>
    /\ UNCHANGED <<loopVars, lastEstimate, lastAdapt, adaptCalls, senseCalls, generators,
                   clockVars, simVars>>

\* reset(channel)
Reset(channel) ==
    /\ limiterBuilt
    /\ Len(callLog) < MaxLogged
    /\ callCounts' = [callCounts EXCEPT ![channel] = <<>>]
    /\ callLog' = Append(callLog,
                         [op |-> "reset", channel |-> channel, at |-> now, ok |-> TRUE])
    /\ UNCHANGED <<limiterBuilt, maxCalls, windowMs, now>>
    /\ UNCHANGED <<loopVars, lastEstimate, lastAdapt, adaptCalls, senseCalls, generators,
                   clockVars, simVars>>

\* clearAll()
ClearAll ==
    /\ limiterBuilt
    /\ Len(callLog) < MaxLogged
    /\ callCounts' = [ch \in Channels |-> <<>>]
    /\ callLog' = Append(callLog,
                         [op |-> "clearAll", channel |-> "*", at |-> now, ok |-> TRUE])
    /\ UNCHANGED <<limiterBuilt, maxCalls, windowMs, now>>
    /\ UNCHANGED <<loopVars, lastEstimate, lastAdapt, adaptCalls, senseCalls, generators,
                   clockVars, simVars>>

LimiterNext ==
    \/ \E limit \in MaxCallsChoices : NewLimiter(limit, WindowMsDefault)
    \/ ClockAdvance
    \/ \E channel \in Channels : Check(channel)
    \/ \E channel \in Channels : Reset(channel)
    \/ ClearAll

LimiterSpec == Init /\ [][LimiterNext]_vars

----------------------------------------------------------------------------
(* The for loop of runCoherenceSimulation in IEEE double arithmetic.        *)
(* A double d >= 0 is the pair <<hi, lo>> with d = (hi * Limb + lo) / 2^55: *)
(* every double used here is a multiple of 2^-55 below 2^4.                 *)

Limb == 268435456          \* 2^28
SignificandBits == 53      \* of a double
LimbBits == 28

MaxTicks == 18             \* iterations of the loop that are followed

RECURSIVE BitsOf(_)
BitsOf(n) == IF n = 0 THEN 0 ELSE 1 + BitsOf(n \div 2)

RECURSIVE Pow2(_)
Pow2(k) == IF k = 0 THEN 1 ELSE 2 * Pow2(k - 1)

\* the exact sum
FxAdd(a, b) ==
    LET lo == a[2] + b[2]
    IN  << a[1] + b[1] + (lo \div Limb), lo % Limb >>

FxLe(a, b) == a[1] < b[1] \/ (a[1] = b[1] /\ a[2] <= b[2])
FxLt(a, b) == a[1] < b[1] \/ (a[1] = b[1] /\ a[2] < b[2])

\* round to nearest, ties to even, at SignificandBits significant bits
FxRound(a) ==
    LET drop == BitsOf(a[1]) + LimbBits - SignificandBits
        q    == IF drop > 0 THEN Pow2(drop) ELSE 1
        rem  == a[2] % q
        down == << a[1], a[2] - rem >>
        up   == 2 * rem > q \/ (2 * rem = q /\ ((a[2] - rem) \div q) % 2 = 1)
    IN  IF drop <= 0 \/ rem = 0 THEN a
        ELSE IF up THEN FxAdd(down, <<0, q>>) ELSE down

\* a + b on doubles
DoubleAdd(a, b) == FxRound(FxAdd(a, b))

\* the doubles 0, 0.1, 0.25, 0.3, 0.6, 0.8, 1, 1.5 and 1.6
D0 == <<0, 0>>
D0_1 == <<13421772, 214748365>>
D0_25 == <<33554432, 0>>
D0_3 == <<40265318, 107374182>>
D0_6 == <<80530636, 214748364>>
D0_8 == <<107374182, 107374184>>
D1 == <<134217728, 0>>
D1_5 == <<201326592, 0>>
D1_6 == <<214748364, 214748368>>

ClockConfigChoices ==
    [durationMs : {D0, D0_6, D0_8, D1, D1_5, D1_6}, stepMs : {D0_1, D0_25, D0_3, D1}]

\* let tMs = 0
ClockStart(config) ==
    /\ clockPc = "idle"
    /\ clockCfg' = config
    /\ clockT' = D0
    /\ clockStamps' = <<>>
    /\ clockPc' = "loop"
    /\ UNCHANGED <<loopVars, lastEstimate, lastAdapt, adaptCalls, senseCalls, generators,
                   ipcVars, simVars>>

\* tMs <= cfg.durationMs; the body, which pushes one trace entry; tMs += cfg.stepMs
ClockTick ==
    /\ clockPc = "loop"
    /\ FxLe(clockT, clockCfg.durationMs)
    /\ Len(clockStamps) < MaxTicks
    /\ clockStamps' = Append(clockStamps, clockT)
    /\ clockT' = DoubleAdd(clockT, clockCfg.stepMs)
    /\ UNCHANGED <<clockPc, clockCfg>>
    /\ UNCHANGED <<loopVars, lastEstimate, lastAdapt, adaptCalls, senseCalls, generators,
                   ipcVars, simVars>>

\* the loop condition fails
ClockExit ==
    /\ clockPc = "loop"
    /\ ~FxLe(clockT, clockCfg.durationMs)
    /\ clockPc' = "done"
    /\ UNCHANGED <<clockCfg, clockT, clockStamps>>
    /\ UNCHANGED <<loopVars, lastEstimate, lastAdapt, adaptCalls, senseCalls, generators,
                   ipcVars, simVars>>

ClockNext ==
    \/ \E config \in ClockConfigChoices : ClockStart(config)
    \/ ClockTick
    \/ ClockExit

ClockSpec == Init /\ [][ClockNext]_vars

----------------------------------------------------------------------------
(* Claims about the controller (specification Spec)                         *)

\* C1: under a config with floor <= ceiling for every field, every field of
\* the params adapt returns lies within [floor, ceiling]
C1_AdaptWithinBounds ==
    (lastAdapt # <<>> /\ OrderedBounds(cfg)) =>
        \A k \in Keys :
            /\ RLe(cfg.floors[k], lastAdapt[1].out[k])
            /\ RLe(lastAdapt[1].out[k], cfg.ceilings[k])

\* an adapt call on params above a ceiling and below a floor, under ordered bounds
C1_Witness ==
    /\ lastAdapt # <<>>
    /\ OrderedBounds(cfg)
    /\ \E k \in Keys : RGt(lastAdapt[1].c[k], cfg.ceilings[k])
    /\ \E k \in Keys : RLt(lastAdapt[1].c[k], cfg.floors[k])

C3_NoCallUnderInvalidConfig ==
    adaptCalls > 0 => ValidConfig(cfg)

\* C7 as stated: when H < Hmin the proposed batchSize and concurrency are
\* each <= their current values, for every current params
C7_Original ==
    (lastAdapt # <<>> /\ RLt(lastAdapt[1].state.H, cfg.Hmin)) =>
        \A k \in {"batchSize", "concurrency"} :
            RLe(lastAdapt[1].proposed[k], lastAdapt[1].c[k])

\* C7 amended: when H < Hmin the proposed batchSize and concurrency are each
\* <= their current values, for each of the two whose current value is >= 1
C7_ProposalNotAboveFromOne ==
    (lastAdapt # <<>> /\ RLt(lastAdapt[1].state.H, cfg.Hmin)) =>
        \A k \in {"batchSize", "concurrency"} :
            RGe(lastAdapt[1].c[k], One) =>
                RLe(lastAdapt[1].proposed[k], lastAdapt[1].c[k])

\* a couple-down that halves a batchSize >= 2 and a concurrency >= 2
C7_Witness ==
    /\ lastAdapt # <<>>
    /\ RLt(lastAdapt[1].state.H, cfg.Hmin)
    /\ \A k \in {"batchSize", "concurrency"} :
          /\ RGe(lastAdapt[1].c[k], I(2))
          /\ RLt(lastAdapt[1].proposed[k], lastAdapt[1].c[k])

\* C15 as stated: if H >= Hmin, adapt returns the params it was given, in
\* every field, for every current params
C15_Original ==
    (lastAdapt # <<>> /\ RGe(lastAdapt[1].state.H, cfg.Hmin)) =>
        lastAdapt[1].out = lastAdapt[1].c

\* C15 amended: if H >= Hmin, adapt proposes no change, and every field whose
\* current value lies within its floor and ceiling is returned unchanged
C15_NoChangeWithinBounds ==
    (lastAdapt # <<>> /\ RGe(lastAdapt[1].state.H, cfg.Hmin)) =>
        /\ lastAdapt[1].proposed = lastAdapt[1].c
        /\ \A k \in Keys :
              WithinBounds(cfg, k, lastAdapt[1].c[k]) =>
                  lastAdapt[1].out[k] = lastAdapt[1].c[k]

\* an adapt call at H = Hmin exactly on params within bounds that a
\* couple-down would have changed
C15_Witness ==
    /\ lastAdapt # <<>>
    /\ lastAdapt[1].state.H = cfg.Hmin
    /\ \A k \in Keys : WithinBounds(cfg, k, lastAdapt[1].c[k])
    /\ RGe(lastAdapt[1].c.batchSize, I(2))
    /\ lastAdapt[1].out = lastAdapt[1].c

\* d clamped to [-lim, +lim]
ClampDelta(d, lim) == RMax(RNeg(lim), RMin(lim, d))

\* the three stages of C16 for field k of current params c
StagedField(k, c) ==
    LET p == CASE k = "batchSize" -> RMax(One, RFloor(RDiv(c[k], I(2))))
               [] k = "concurrency" -> RMax(One, RFloor(RDiv(c[k], I(2))))
               [] k = "redundancy" -> RAdd(c[k], Q(1, 10))
               [] k = "paceMs" -> RAdd(c[k], I(5))
        d == IF k \in DOMAIN cfg.maxDelta
             THEN RAdd(c[k], ClampDelta(RSub(p, c[k]), cfg.maxDelta[k]))
             ELSE p
        lo == IF k \in DOMAIN cfg.floors THEN RMax(cfg.floors[k], d) ELSE d
    IN  IF k \in DOMAIN cfg.ceilings THEN RMin(cfg.ceilings[k], lo) ELSE lo

\* C16: when H < Hmin, each field adapt returns is the proposal (halved with
\* floor at 1, or incremented), its delta from the current value clamped to
\* +/- maxDelta, then bounded into [floor, ceiling]
C16_ThreeStages ==
    (lastAdapt # <<>> /\ RLt(lastAdapt[1].state.H, cfg.Hmin)) =>
        \A k \in Keys : lastAdapt[1].out[k] = StagedField(k, lastAdapt[1].c)

----------------------------------------------------------------------------
(* Claims about the estimator (specification EstSpec)                       *)

\* C6: with fewer than two samples sensed (history length 0 or 1) estimate()
\* returns exactly {M: 1, V: 0, R: 1, H: +Infinity}, whatever the config and
\* the single sample
C6_WarmUpIsNeutral ==
    (lastEstimate # <<>> /\ lastEstimate[1].n < 2) =>
        lastEstimate[1].state = [M |-> One, V |-> Zero, R |-> One, H |-> Infinity]

\* an estimate on a history of one sample whose own margin is below 1
C6_Witness ==
    /\ lastEstimate # <<>>
    /\ lastEstimate[1].n = 1
    /\ Len(history) = 1
    /\ RLt(Margin(history[1]), One)

\* C10: for samples with finite field values, the state estimate() returns
\* has M in [0, 1] and R in [0, 1]
C10_MarginAndReserveInUnitInterval ==
    lastEstimate # <<>> =>
        /\ RLe(Zero, lastEstimate[1].state.M) /\ RLe(lastEstimate[1].state.M, One)
        /\ RLe(Zero, lastEstimate[1].state.R) /\ RLe(lastEstimate[1].state.R, One)

\* an estimate on two samples where the latest has a negative error rate and
\* a negative spike, so that 1/(1 + ...) is negative for margin and reserve
C10_Witness ==
    /\ lastEstimate # <<>>
    /\ lastEstimate[1].n >= 2
    /\ Len(history) = lastEstimate[1].n
    /\ RLt(history[Len(history)].errRate, Q(-32, 1000))
    /\ RLt(CorrSpikeOrZero(history[Len(history)]), Q(-1, 2))
    /\ lastEstimate[1].state.M = Zero
    /\ lastEstimate[1].state.R = Zero

----------------------------------------------------------------------------
(* Claims about the simulation (specifications SimSpec and RerunSpec)       *)

\* the coupling the tick of trace entry i started from
PrevCoupling(i) == IF i = 1 THEN simCfg.coupling ELSE trace[i - 1].coupling

DeltaWithin(i, k) ==
    RLe(RAbs(RSub(trace[i].coupling[k], PrevCoupling(i)[k])), simCfg.coherence.maxDelta[k])

C5_SameConfigSameResult ==
    (pc = "done" /\ prior # <<>>) => result = prior

\* a second run finished, with a collapse recorded and a coupling change
C5_Witness ==
    /\ pc = "done"
    /\ prior # <<>>
    /\ Len(result[1].trace) >= 3
    /\ result[1].summary.collapseAtMs # <<>>
    /\ \E i \in 1..Len(trace) : trace[i].coupling # simCfg.coupling

CollapseCount(diary) ==
    Cardinality({ i \in 1..Len(diary) : diary[i].reason = "collapse" })

\* C8: the failure diary holds at most one "collapse" entry, and within a run
\* collapseAtMs, once set, is not changed by a later step
C8_CollapseLatchedOnce ==
    [][ /\ CollapseCount(failures') <= 1
        /\ (collapseAtMs # <<>> /\ runs' = runs) => collapseAtMs' = collapseAtMs ]_vars

\* the margin was below collapseMargin, recovered, and fell below it again
C8_Witness ==
    /\ CollapseCount(failures) = 1
    /\ \E i, j, l \in 1..Len(trace) :
          /\ i < j /\ j < l
          /\ RLt(trace[i].state.M, simCfg.collapseMargin)
          /\ RGe(trace[j].state.M, simCfg.collapseMargin)
          /\ RLt(trace[l].state.M, simCfg.collapseMargin)

\* C9: if summary.collapseAtMs is defined, the trace entry at collapseAtMs
\* has M < collapseMargin, every earlier entry has M >= collapseMargin, and
\* the one collapse entry of the diary carries the timestamp collapseAtMs
C9_LeftEdgeCrossing ==
    (pc = "done" /\ result[1].summary.collapseAtMs # <<>>) =>
        LET at == result[1].summary.collapseAtMs[1]
            tr == result[1].trace
            diary == result[1].failures
        IN  /\ \E i \in 1..Len(tr) :
                  /\ tr[i].tMs = at
                  /\ RLt(tr[i].state.M, simCfg.collapseMargin)
                  /\ \A j \in 1..(i - 1) : RGe(tr[j].state.M, simCfg.collapseMargin)
            /\ CollapseCount(diary) = 1
            /\ \A i \in 1..Len(diary) : diary[i].reason = "collapse" => diary[i].tMs = at

\* a finished run whose collapse came after a tick with M exactly at collapseMargin
C9_Witness ==
    /\ pc = "done"
    /\ result[1].summary.collapseAtMs # <<>>
    /\ \E i \in 1..Len(trace) :
          /\ trace[i].tMs < result[1].summary.collapseAtMs[1]
          /\ trace[i].state.M = simCfg.collapseMargin


\* C11: for every state estimate() returns, H is +Infinity exactly when
\* V >= 0; when V < 0, H is finite, non-negative, equal to
\* (M / max(1e-6, |V|)) * max(0.2, R), and equal to computeHorizonSec(M, V, R)
\* under the default minimum reserve
C11_HorizonMatchesDrift ==
    lastEstimate # <<>> =>
        LET s == lastEstimate[1].state
        IN  /\ (s.H = Infinity) <=> RGe(s.V, Zero)
            /\ RLt(s.V, Zero) =>
                 /\ IsFinite(s.H)
                 /\ RGe(s.H, Zero)
                 /\ s.H = RMul(RDiv(s.M, RMax(Q(1, 1000000), RAbs(s.V))),
                               RMax(Q(2, 10), s.R))
                 /\ s.H = computeHorizonSec(s.M, s.V, s.R, DEFAULT_MIN_RESERVE)

\* an estimate with a falling margin and a reserve below the 0.2 floor
C11_Witness ==
    /\ lastEstimate # <<>>
    /\ RLt(lastEstimate[1].state.V, Zero)
    /\ RLt(lastEstimate[1].state.R, Q(2, 10))
    /\ RGt(lastEstimate[1].state.H, Zero)

\* dt of tick i: seconds between the samples of ticks i - 1 and i, floored at 1e-6
TickDt(i) ==
    RMax(Q(1, 1000000), RDiv(RSub(I(history[i].t), I(history[i - 1].t)), I(1000)))

\* C12 as stated: at every tick with at least two samples in the history, V
\* equals (M reported at this tick - M reported at the previous tick) / dt
C12_Original ==
    \A i \in 2..Len(trace) :
        trace[i].state.V =
            RDiv(RSub(trace[i].state.M, trace[i - 1].state.M), TickDt(i))

\* C12 amended: at every tick with at least two samples in the history, M is
\* the margin of the newest sample and V equals (that margin - the margin
\* recomputed from the prior sample) / dt; from the third tick on this is also
\* (M reported at this tick - M reported at the previous tick) / dt
C12_DriftFromRecomputedMargins ==
    /\ Len(history) = Len(trace)
    /\ \A i \in 2..Len(trace) :
        /\ trace[i].state.M = Margin(history[i])
        /\ trace[i].state.V =
              RDiv(RSub(Margin(history[i]), Margin(history[i - 1])), TickDt(i))
        /\ i >= 3 =>
              trace[i].state.V =
                  RDiv(RSub(trace[i].state.M, trace[i - 1].state.M), TickDt(i))

\* a third or later tick whose margin moved, after a second tick whose
\* previous sample has a margin other than the warm-up value 1
C12_Witness ==
    /\ Len(trace) >= 3
    /\ Margin(history[1]) # One
    /\ \E i \in 3..Len(trace) : trace[i].state.V # Zero

(* Claims about Lcg (specification LcgSpec)                                 *)

\* C13: every value next() returns lies in [0, 1), never exactly 1
C13_DrawsBelowOne ==
    \A g \in 1..Len(generators) : \A i \in 1..Len(generators[g].draws) :
        /\ generators[g].draws[i].num[1] >= 0
        /\ WideLt(generators[g].draws[i].num, generators[g].draws[i].den)

\* the bytes of a 32-bit number in halves, least significant first
BytesOf(st) == <<st[2] % 256, st[2] \div 256, st[1] % 256, st[1] \div 256>>

\* (1664525 * s + 1013904223) mod 2^32 by long multiplication on bytes, with
\* 1664525 = 0x0019660D and 1013904223 = 0x3C6EF35F
AffineMod32(st) ==
    LET s == BytesOf(st)
        a == <<13, 102, 25, 0>>
        c == <<95, 243, 110, 60>>
        col(k) == LET S[i \in 0..k] ==
                          IF i = 0 THEN 0 ELSE S[i - 1] + a[i] * s[k + 1 - i]
                  IN  S[k] + c[k]
        r1 == col(1)
        r2 == col(2) + (r1 \div 256)
        r3 == col(3) + (r2 \div 256)
        r4 == col(4) + (r3 \div 256)
    IN  <<(r4 % 256) * 256 + (r3 % 256), (r2 % 256) * 256 + (r1 % 256)>>

IsUint32(st) == st[1] \in 0..(Half - 1) /\ st[2] \in 0..(Half - 1)

\* C14: the generator state is always an unsigned 32-bit integer, it starts as
\* seed mod 2^32, each next() replaces it by (1664525 * state + 1013904223)
\* mod 2^32 and returns state / (2^32 - 1), and two seeds congruent modulo
\* 2^32 give the same draws
C14_LcgRecurrence ==
    /\ \A g \in 1..Len(generators) :
         LET gen == generators[g]
             start == <<gen.seed[1] % 65536, gen.seed[2]>>
             before(i) == IF i = 1 THEN start ELSE gen.draws[i - 1].num
         IN  /\ IsUint32(gen.state)
             /\ gen.state = IF gen.draws = <<>> THEN start
                            ELSE gen.draws[Len(gen.draws)].num
             /\ \A i \in 1..Len(gen.draws) :
                  /\ gen.draws[i].num = AffineMod32(before(i))
                  /\ gen.draws[i].den = <<65535, 65535>>
    /\ \A g, h \in 1..Len(generators) :
         ( /\ generators[g].seed[2] = generators[h].seed[2]
           /\ (generators[g].seed[1] - generators[h].seed[1]) % 65536 = 0 ) =>
             \A i \in 1..Len(generators[g].draws) :
                 i <= Len(generators[h].draws) =>
                     generators[g].draws[i] = generators[h].draws[i]

\* two generators seeded 1337 and 1337 + 2^32, two draws each, the first draw
\* being 3239374148 / 0xffffffff
C14_Witness ==
    /\ Len(generators) = 2
    /\ generators[1].seed = <<0, 1337>>
    /\ generators[2].seed = <<65536, 1337>>
    /\ Len(generators[1].draws) = 2
    /\ Len(generators[2].draws) = 2
    /\ generators[1].draws[1].num = <<49428, 60740>>
    /\ generators[2].draws[2].num = <<36012, 6099>>

\* tick i is at or after lastEventEnd and has H >= Hmin and V >= 0
StableTick(i) ==
    /\ trace[i].tMs >= LastEventEnd(simCfg.events)
    /\ RGe(trace[i].state.H, simCfg.coherence.Hmin)
    /\ RGe(trace[i].state.V, Zero)

\* tick i completes stableWindowSteps consecutive stable ticks
StreakEndsAt(i) ==
    /\ i >= simCfg.stableWindowSteps
    /\ \A j \in (i - simCfg.stableWindowSteps + 1)..i : StableTick(j)

\* the stable-window bookkeeping agrees with the trace so far
StabilizeMatchesTrace ==
    /\ timeToStabilizeMs = <<>> =>
           /\ \A i \in 1..Len(trace) : ~StreakEndsAt(i)
           /\ stableSteps <= Len(trace)
           /\ \A j \in (Len(trace) - stableSteps + 1)..Len(trace) : StableTick(j)
           /\ stableSteps < Len(trace) => ~StableTick(Len(trace) - stableSteps)
    /\ timeToStabilizeMs # <<>> =>
           \E i \in 1..Len(trace) :
               /\ StreakEndsAt(i)
               /\ \A j \in 1..(i - 1) : ~StreakEndsAt(j)
               /\ timeToStabilizeMs[1] = trace[i].tMs - LastEventEnd(simCfg.events)

\* C18: timeToStabilizeMs is set at the first tick that completes a streak of
\* stableWindowSteps consecutive ticks at or after lastEventEnd with H >= Hmin
\* and V >= 0, to that tick's time minus lastEventEnd, and is never changed
\* afterwards within the run; while it is unset, stableSteps is the length of
\* the streak of such ticks ending at the latest tick
C18_StabilizeOnce ==
    /\ []StabilizeMatchesTrace
    /\ [][ (timeToStabilizeMs # <<>> /\ runs' = runs) =>
               timeToStabilizeMs' = timeToStabilizeMs ]_vars

\* a run that stabilized after a tick at lastEventEnd failed the condition and
\* after a tick before lastEventEnd met it without being counted
C18_Witness ==
    /\ timeToStabilizeMs # <<>>
    /\ timeToStabilizeMs[1] > 0
    /\ \E i \in 1..Len(trace) :
          /\ trace[i].tMs >= LastEventEnd(simCfg.events)
          /\ ~StableTick(i)
    /\ \E i \in 1..Len(trace) :
          /\ trace[i].tMs < LastEventEnd(simCfg.events)
          /\ RGe(trace[i].state.H, simCfg.coherence.Hmin)
          /\ RGe(trace[i].state.V, Zero)
    /\ Len(trace) > (timeToStabilizeMs[1] + LastEventEnd(simCfg.events)) \div simCfg.stepMs + 1

UnstableCount(diary) ==
    Cardinality({ i \in 1..Len(diary) : diary[i].reason = "unstable" })

\* C19: the diary of a returned result holds an "unstable" entry exactly when
\* summary.timeToStabilizeMs is absent; the entry is unique, is the last one
\* (after any collapse entry), and carries durationMs; a run that never
\* stabilizes returns a result like any other, and no unstable entry is
\* written before the loop has ended
C19_UnstableEntry ==
    /\ pc = "loop" => UnstableCount(failures) = 0
    /\ pc = "done" =>
          /\ result # <<>>
          /\ DOMAIN result[1] = {"summary", "trace", "failures"}
          /\ LET diary == result[1].failures
             IN  /\ (UnstableCount(diary) >= 1) <=> (result[1].summary.timeToStabilizeMs = <<>>)
                 /\ UnstableCount(diary) <= 1
                 /\ UnstableCount(diary) = 1 =>
                       /\ diary[Len(diary)].reason = "unstable"
                       /\ diary[Len(diary)].tMs = simCfg.durationMs
                       /\ \A i \in 1..(Len(diary) - 1) : diary[i].reason = "collapse"

\* a returned run that collapsed and never stabilized, whose duration is not a
\* multiple of the step
C19_Witness ==
    /\ pc = "done"
    /\ result[1].summary.timeToStabilizeMs = <<>>
    /\ Len(result[1].failures) = 2
    /\ result[1].failures[1].reason = "collapse"
    /\ result[1].failures[2].reason = "unstable"
    /\ simCfg.durationMs % simCfg.stepMs # 0

(* Claims about the scenarios (specification ScenarioSpec)                  *)

\* C20: with an empty event list, duration 60000 ms, step 200 ms and
\* otherwise the default config, H >= Hmin at every tick, every trace entry
\* carries the initial coupling, no collapse is recorded, and
\* timeToStabilizeMs is set by the tick number stableWindowSteps, to the time
\* of that tick
C20_QuietRunNeverCouplesDown ==
    /\ \A i \in 1..Len(trace) :
          /\ RGe(trace[i].state.H, simCfg.coherence.Hmin)
          /\ trace[i].coupling = simCfg.coupling
    /\ couplingChanges = 0
    /\ collapseAtMs = <<>>
    /\ \A i \in 1..Len(failures) : failures[i].reason # "collapse"
    /\ Len(trace) >= simCfg.stableWindowSteps =>
          timeToStabilizeMs = <<(simCfg.stableWindowSteps - 1) * simCfg.stepMs>>
    /\ pc = "done" =>
          /\ result[1].summary.timeToStabilizeMs # <<>>
          /\ result[1].summary.timeToStabilizeMs[1] <= simCfg.stableWindowSteps * simCfg.stepMs
          /\ result[1].summary.collapseAtMs = <<>>
          /\ result[1].failures = <<>>

\* the returned run of 301 ticks over 60000 ms
C20_Witness ==
    /\ pc = "done"
    /\ simCfg.events = <<>>
    /\ simCfg.durationMs = 60000
    /\ simCfg.stepMs = 200
    /\ Len(result[1].trace) = 301
    /\ result[1].summary.timeToStabilizeMs = <<800>>

\* the effective queue slope of the tick about to run
EffectiveSlope ==
    RAdd(simCfg.baseQueueSlope, SumMagnitude(ActiveEvents(simCfg, tMs), "congestion"))

\* C21: at each tick the synthesized queueDepth becomes
\* max(0, previous + slope * stepMs / 1000), is never negative, is the depth
\* the sample carries, and is not below the previous depth when the effective
\* slope is >= 0, as throughout the default congestion window [35000, 45000);
\* no other step of a run changes it
C21_QueueIntegrator ==
    [][ /\ (pc = "loop" /\ Len(trace') = Len(trace) + 1) =>
              /\ queueDepth' = RMax(Zero, RAdd(queueDepth,
                                   RMul(EffectiveSlope, Q(simCfg.stepMs, 1000))))
              /\ RGe(queueDepth', Zero)
              /\ history'[Len(history')].queueDepth = queueDepth'
              /\ RGe(EffectiveSlope, Zero) => RGe(queueDepth', queueDepth)
              /\ (simCfg.baseQueueSlope = Zero /\ tMs >= 35000 /\ tMs < 45000) =>
                    RGe(queueDepth', queueDepth)
        /\ (runs' = runs /\ Len(trace') = Len(trace)) => queueDepth' = queueDepth ]_vars

\* the default run at the end of the congestion window: fifty ticks at slope
\* 2.5 have raised the depth from 8 to 33
C21_Witness ==
    /\ pc = "loop"
    /\ simCfg.baseQueueSlope = Zero
    /\ tMs = 45000
    /\ queueDepth = I(33)
    /\ history[Len(history) - 50].queueDepth = I(8)

\* the sign of the delta of parameter k at tick i
DeltaSign(i, k) == RSign(RSub(trace[i].coupling[k], PrevCoupling(i)[k]))

\* the ticks at which the delta of k has the reverse sign of the previous tick's
Reversals(k) ==
    { i \in 2..Len(trace) :
        DeltaSign(i, k) # 0 /\ DeltaSign(i, k) = -DeltaSign(i - 1, k) }

FallingTicks == { i \in 1..Len(trace) : RLt(trace[i].state.V, Zero) }

\* t + H * 1000 of tick i
PredictionAt(i) == RAdd(I(trace[i].tMs), RMul(trace[i].state.H, I(1000)))

\* C23: the last prediction is t + H * 1000 of the latest tick with V < 0 and
\* is undefined while there is none; summary.horizonPredictionErrorMs is
\* defined exactly when a collapse was recorded and some tick had V < 0, and
\* is then |lastPrediction - collapseAtMs|
C23_PredictionError ==
    /\ (lastPredictionMs = <<>>) <=> (FallingTicks = {})
    /\ FallingTicks # {} =>
          LET m == CHOOSE i \in FallingTicks : \A j \in FallingTicks : j <= i
          IN  /\ IsFinite(trace[m].state.H)
              /\ lastPredictionMs = <<PredictionAt(m)>>
    /\ pc = "done" =>
          LET e == result[1].summary.horizonPredictionErrorMs
          IN  /\ (e # <<>>) <=> (result[1].summary.collapseAtMs # <<>> /\ FallingTicks # {})
              /\ e # <<>> =>
                    e[1] = RAbs(RSub(lastPredictionMs[1],
                                     I(result[1].summary.collapseAtMs[1])))

\* a returned run with a prediction error, whose last tick with V < 0 came
\* after the collapse
C23_Witness ==
    /\ pc = "done"
    /\ result[1].summary.horizonPredictionErrorMs # <<>>
    /\ \E i \in FallingTicks : trace[i].tMs > result[1].summary.collapseAtMs[1]
    /\ RGt(result[1].summary.horizonPredictionErrorMs[1], Zero)

(* Claims about the history (specification EstSpec)                         *)

\* C24: the history never holds more than historySize samples; a sense() call
\* puts its sample last and keeps the earlier samples in arrival order,
\* all of them while the history is not full, all but the oldest when it is
C24_BoundedHistory ==
    /\ [](Len(history) <= historySize)
    /\ [][ senseCalls' = senseCalls + 1 =>
              /\ Len(history') = IF Len(history) < historySize
                                 THEN Len(history) + 1 ELSE historySize
              /\ history'[Len(history')] \in SampleChoices
              /\ SubSeq(history', 1, Len(history') - 1) =
                    IF Len(history) < historySize THEN history ELSE Tail(history) ]_vars

\* a third sample was sensed into a history of capacity 2
C24_Witness ==
    /\ historySize = 2
    /\ senseCalls = 3
    /\ Len(history) = 2
    /\ history[1] # history[2]

----------------------------------------------------------------------------
(* Claims about the IPC rate limiter (specification LimiterSpec)            *)

\* the check() calls logged so far
CheckCalls == {i \in 1..Len(callLog) : callLog[i].op = "check"}

\* the last call before call i that concerns call i's channel; 0 if none
PrevOn(i) ==
    LET S == {j \in 1..(i - 1) : \/ callLog[j].channel = callLog[i].channel
                                 \/ callLog[j].op = "clearAll"}
    IN  IF S = {} THEN 0 ELSE CHOOSE j \in S : \A k \in S : k <= j

\* the check() call that opened the window call i falls into: call i itself when
\* it is the first on its channel, follows a reset, or comes at or after the
\* reset time of the window before it
RECURSIVE WindowOpener(_)
WindowOpener(i) ==
    LET j == PrevOn(i)
    IN  IF j = 0 \/ callLog[j].op # "check" THEN i
        ELSE IF callLog[i].at >= callLog[WindowOpener(j)].at + windowMs THEN i
        ELSE WindowOpener(j)

\* the check() calls up to call i, in call i's window, that returned true
GrantedUpTo(i) ==
    {k \in CheckCalls : /\ k <= i
                        /\ callLog[k].channel = callLog[i].channel
                        /\ WindowOpener(k) = WindowOpener(i)
                        /\ callLog[k].ok}

\* C25: within one window at most maxCalls check() calls on a channel return
\* true: exactly the first maxCalls do, whatever happens on other channels, and
\* the first check() after the window has elapsed or after reset(channel)
\* returns true
C25_WindowLimit ==
    \A i \in CheckCalls :
        /\ Cardinality(GrantedUpTo(i)) <= maxCalls
        /\ callLog[i].ok <=> Cardinality(GrantedUpTo(i) \ {i}) < maxCalls
        /\ (WindowOpener(i) = i /\ PrevOn(i) # 0) => callLog[i].ok


----------------------------------------------------------------------------
(* Frame conditions of a run (specification SimSpec)                        *)

\* C26: a tick leaves the earlier trace entries, which hold the objects passed
\* to adapt, and the config as they were; the history after the tick is what
\* sense left, untouched by estimate and adapt; the live coupling becomes the
\* value adapt returned, which is the one pushed on the trace; and outside a
\* tick the live coupling of a run does not change
C26_NoSideEffects ==
    [][ /\ Len(trace') = Len(trace) + 1 =>
              /\ SubSeq(trace', 1, Len(trace)) = trace
              /\ simCfg' = simCfg
              /\ history' = sense(history, historySize, history'[Len(history')])
              /\ coupling' = adapt(cfg, trace'[Len(trace')].state, coupling)
              /\ coupling' = trace'[Len(trace')].coupling
        /\ (Len(trace') = Len(trace) /\ runs' = runs) => coupling' = coupling ]_vars

\* a finished run in which adapt returned params that differ from the ones it
\* was given, on the first tick and on a later one
C26_Witness ==
    /\ pc = "done"
    /\ Len(trace) >= 3
    /\ trace[1].coupling # simCfg.coupling
    /\ \E i \in 2..Len(trace) : trace[i].coupling # trace[i - 1].coupling

----------------------------------------------------------------------------
(* Claims about the for loop (specification ClockSpec)                      *)

\* k * x, exactly
RECURSIVE ExactTimes(_, _)
ExactTimes(k, x) == IF k = 0 THEN D0 ELSE FxAdd(ExactTimes(k - 1, x), x)

\* C27: when the loop is left the trace holds floor(durationMs / stepMs) + 1
\* entries, and entry i carries the timestamp (i - 1) * stepMs, in strictly
\* increasing order
C27_TraceLength ==
    clockPc = "done" =>
        LET n == Len(clockStamps)
        IN  /\ n >= 1
            /\ FxLe(ExactTimes(n - 1, clockCfg.stepMs), clockCfg.durationMs)
            /\ FxLt(clockCfg.durationMs, ExactTimes(n, clockCfg.stepMs))
            /\ \A i \in 1..n :
                  clockStamps[i] = FxRound(ExactTimes(i - 1, clockCfg.stepMs))
            /\ \A i \in 1..(n - 1) : FxLt(clockStamps[i], clockStamps[i + 1])

----------------------------------------------------------------------------
(* Direction of the coupling across a run (specification SimSpec)           *)

\* the run started from a coupling within its bounds, with batchSize and
\* concurrency of at least 1, under rate limits that are not negative
StartsWithinBounds ==
    /\ pc # "idle"
    /\ \A k \in Keys : WithinBounds(simCfg.coherence, k, simCfg.coupling[k])
    /\ RGe(simCfg.coupling.batchSize, One)
    /\ RGe(simCfg.coupling.concurrency, One)
    /\ NonNegativeMaxDelta(simCfg.coherence)

\* no field of entry i has moved towards tighter coupling
NoCoupleUp(i) ==
    /\ RLe(trace[i].coupling.batchSize, PrevCoupling(i).batchSize)
    /\ RLe(trace[i].coupling.concurrency, PrevCoupling(i).concurrency)
    /\ RGe(trace[i].coupling.redundancy, PrevCoupling(i).redundancy)
    /\ RGe(trace[i].coupling.paceMs, PrevCoupling(i).paceMs)

\* C28: in a run that starts within its bounds, with batchSize and concurrency
\* of at least 1 and no negative maxDelta, batchSize and concurrency never
\* increase and redundancy and paceMs never decrease from one trace entry to
\* the next (the first entry being compared with the initial coupling)
C28_NoCoupleUp ==
    StartsWithinBounds => \A i \in 1..Len(trace) : NoCoupleUp(i)

\* a finished run of that kind in which the coupling was lowered during a
\* disturbance and, the disturbance over and the horizon back above Hmin, is
\* still where the disturbance left it
C28_Witness ==
    /\ pc = "done"
    /\ StartsWithinBounds
    /\ simCfg.events # <<>>
    /\ \E i \in 1..(Len(trace) - 1) :
          /\ trace[i].tMs < LastEventEnd(simCfg.events)
          /\ RLt(trace[i].coupling.batchSize, simCfg.coupling.batchSize)
          /\ trace[Len(trace)].tMs >= LastEventEnd(simCfg.events) + StepMs
          /\ RGe(trace[Len(trace)].state.H, simCfg.coherence.Hmin)
          /\ trace[Len(trace)].coupling = trace[i].coupling

\* the delta of field k at trace entry i
DeltaAt(i, k) == RSub(trace[i].coupling[k], PrevCoupling(i)[k])

\* batchSize and concurrency of the initial coupling are integers
IntegerCoupling ==
    /\ simCfg.coupling.batchSize[2] = 1
    /\ simCfg.coupling.concurrency[2] = 1

\* C29: in a run that starts within its bounds from integer batchSize and
\* concurrency of at least 1, with no negative maxDelta, no delta of batchSize
\* or concurrency is positive, the ringing counter stays 0 and the summary
\* reports ringingEvents = 0
C29_NoRinging ==
    (StartsWithinBounds /\ IntegerCoupling) =>
        /\ \A i \in 1..Len(trace) :
              /\ RLe(DeltaAt(i, "batchSize"), Zero)
              /\ RLe(DeltaAt(i, "concurrency"), Zero)
        /\ ringingEvents = 0
        /\ pc = "done" => result[1].summary.ringingEvents = 0

\* a finished run of that kind in which batchSize went down at two ticks with
\* an unchanged tick between them
C29_Witness ==
    /\ pc = "done"
    /\ StartsWithinBounds /\ IntegerCoupling
    /\ result[1].summary.ringingEvents = 0
    /\ \E i, j, k \in 1..Len(trace) :
          /\ i < j /\ j < k
          /\ RLt(DeltaAt(i, "batchSize"), Zero)
          /\ DeltaAt(j, "batchSize") = Zero
          /\ RLt(DeltaAt(k, "batchSize"), Zero)

----------------------------------------------------------------------------
(* Two runs that differ only in the seed (specification SeedSpec)           *)

\* the (M, V, R, H) of each trace entry of a result
StateTrace(r) == [i \in 1..Len(r.trace) |-> r.trace[i].state]

\* the coupling of each trace entry of a result
CouplingTrace(r) == [i \in 1..Len(r.trace) |-> r.trace[i].coupling]

\* C30: the second run, which differs from the first only in config.seed,
\* returns the same state trace, coupling trace, failure diary and summary
C30_SeedIndependent ==
    (pc = "done" /\ runs = 2) =>
        /\ StateTrace(result[1]) = StateTrace(prior[1])
        /\ CouplingTrace(result[1]) = CouplingTrace(prior[1])
        /\ result[1].failures = prior[1].failures
        /\ result[1].summary = prior[1].summary

\* a second run under another seed has returned; its generator is in another
\* state than the first run's, and the run went through a disturbance that
\* changed the coupling
C30_Witness ==
    /\ pc = "done" /\ runs = 2
    /\ simCfg.seed # defaultSimulationConfig.seed
    /\ rng \notin {LcgNext(LcgSeed(defaultSimulationConfig.seed))}
    /\ couplingChanges > 0
    /\ \E i \in 1..Len(trace) : RLt(trace[i].state.M, One)
====
